---- MODULE Spec2Model ----
(***************************************************************************)
(* Enchanted Forest: layout generation (paths, hedge wedges, tree scatter) *)
(* and the interactive frame loop (scale handlers, collision guard, reset, *)
(* mouse planting) of src/main.cpp.                                        *)
(*                                                                         *)
(* Fixed-point units (floats of the source become integers):               *)
(*   scales fountainScale, fountainGlobalScale, treeGlobalScale : 1/100    *)
(*   hedgeGlobalScale                                           : 1/1000   *)
(*   wedge radii wedgeRInner1 .. wedgeROuter2                   : 1/100    *)
(*   radial lengths (tree distance, margins, scaled radii)      : 1/100000 *)
(*   cartesian world coordinates, triangle vertices             : 1/1000   *)
(*   cos / sin                                                  : 1/10000  *)
(* A tree position is kept as (unit direction, distance from the centre):  *)
(* every handler moves a tree along its own direction (pos = dir * newR).  *)
(***************************************************************************)
EXTENDS Integers, Sequences, FiniteSets, TLC

\* ------------------------------------------------------------- bounds
MaxFrames == 7
MaxPlanted == 1
AttemptCap == 1
BresMax == 4
MaxRPix == 128

\* unit directions (cos, sin), 1/10000
DirE == <<10000, 0>>
DirW == <<-10000, 0>>
DirNE == <<6000, 8000>>
DirSW == <<-8000, -6000>>
At(d, r) == [dir |-> d, r |-> r]

\* Inputs of the session specification Spec: console values (all accepted),
\* outcomes of rand() for the path start cell, the fallback angle (multiples of
\* 1/32 turn) and the scatter points, cursor positions of clicks, keys held
RadiusInputs == {20, 120}
PathCountInputs == {2}
CountInputs == {<<1, 0, 0>>}
CandCells == {<<40, 25>>}
FallbackAngles == {8}
ScatterPoints == { At(DirW, 320000) }
NoClick == [dir |-> <<0, 0>>, r |-> -1]
ClickPoints == { NoClick, At(DirW, 240000) }
KeySets == { {}, {"K"}, {"L"}, {"R"}, {"L", "R"}, {"LB"} }

\* Inputs of the layout specification SpecLayout
LayoutRadiusInputs == {20, 60, 84, 120}
LayoutPathCountInputs == {1, 2}
LayoutCountInputs == {<<0, 0, 0>>, <<1, 1, 0>>, <<0, 1, 1>>}
LayoutCandCells == {<<40, 25>>, <<27, 25>>, <<0, 0>>}
LayoutFallbackAngles == {0, 4, 8}
LayoutScatterPoints ==
  { At(DirW, 320000), At(DirW, 500000), At(DirW, 400000), At(DirW, 300000),
    At(DirW, 200000), At(DirE, 320000), At(DirSW, 1200000) }

\* ------------------------------------------------------------- program constants
SCR_WIDTH == 800
SCR_HEIGHT == 600
designGridW == 50
designGridH == 50
MaxSampleTries == 4000
MaxPasses == 8
AttemptsPerTree == 600
MinSpacing == 1800
LayoutGap == 20000
GuardGap == 15000
ScaleStep == 1
ScaleMin == 20
ScaleMax == 300

\* ------------------------------------------------------------- arithmetic
Abs(x) == IF x < 0 THEN -x ELSE x
Min(a, b) == IF a < b THEN a ELSE b
Max(a, b) == IF a > b THEN a ELSE b
\* std::round of n/d (d > 0): half away from zero
RoundDiv(n, d) == IF n >= 0 THEN (2 * n + d) \div (2 * d) ELSE -((2 * (-n) + d) \div (2 * d))

\* cosf / sinf of k/32 turn, 1/10000
CosQ(k) ==
  CASE k = 0 -> 10000 [] k = 1 -> 9808 [] k = 2 -> 9239 [] k = 3 -> 8315
    [] k = 4 -> 7071 [] k = 5 -> 5556 [] k = 6 -> 3827 [] k = 7 -> 1951
    [] k = 8 -> 0
Cos32(k) ==
  LET m == k % 32
  IN  IF m <= 8 THEN CosQ(m)
      ELSE IF m <= 16 THEN -CosQ(16 - m)
      ELSE IF m <= 24 THEN -CosQ(m - 16)
      ELSE CosQ(32 - m)
Sin32(k) == Cos32(k + 24)
\* glm::radians(12) and glm::radians(8): (cos, sin), 1/10000
HalfAng1 == <<9781, 2079>>
HalfAng2 == <<9903, 1392>>

\* world position of a point kept as (direction, distance), 1/1000
PosOf(p) == << ((p.r \div 100) * p.dir[1]) \div 10000, ((p.r \div 100) * p.dir[2]) \div 10000 >>

\* ------------------------------------------------------------- exclusion field
\* the sign lambda of pointInTri2
TriSign(p1, p2, p3) == (p1[1] - p3[1]) * (p2[2] - p3[2]) - (p2[1] - p3[1]) * (p1[2] - p3[2])
pointInTri2(p, t) ==
  LET d1 == TriSign(p, t.a, t.b)
      d2 == TriSign(p, t.b, t.c)
      d3 == TriSign(p, t.c, t.a)
      hasNeg == (d1 < 0) \/ (d2 < 0) \/ (d3 < 0)
      hasPos == (d1 > 0) \/ (d2 > 0) \/ (d3 > 0)
  IN  ~(hasNeg /\ hasPos)

\* scaled outer radius of the hedge disk, 1/100000
HedgeOuterScaled(rOuter2, hedgeScale) == rOuter2 * hedgeScale

inDisk(p, rOuter2, hedgeScale) ==
  LET outerR == HedgeOuterScaled(rOuter2, hedgeScale)
  IN  outerR > 0 /\ p.r <= outerR
inAnyTri(p, tris) == \E i \in 1..Len(tris) : pointInTri2(PosOf(p), tris[i])
isForbiddenAtWorld(p, rOuter2, hedgeScale, tris) ==
  inDisk(p, rOuter2, hedgeScale) \/ inAnyTri(p, tris)

\* rot2 and makeTriLocal of the hedge footprint generation
rot2(p, k) ==
  << (p[1] * Cos32(k) - p[2] * Sin32(k)) \div 10000,
     (p[1] * Sin32(k) + p[2] * Cos32(k)) \div 10000 >>
makeTriLocal(rIn, rOut, hAng) ==
  [ a |-> << rIn * 10, 0 >>,
    b |-> << (rOut * hAng[1]) \div 1000, (rOut * hAng[2]) \div 1000 >>,
    c |-> << (rOut * hAng[1]) \div 1000, -((rOut * hAng[2]) \div 1000) >> ]
rotTri(t, k) == [ a |-> rot2(t.a, k), b |-> rot2(t.b, k), c |-> rot2(t.c, k) ]

\* ------------------------------------------------------------- state
VARIABLES
  pc,                  \* position in main: "readSmall" .. "readStyle", "paths", "scatter",
                       \* "window", "loop"; "bres", "ring" inside the function alone
  smallCount, mediumCount, tallCount, pathCount,
  fountainRadius, currentGroundTex, pathStyle,
  layoutPaths, allPathCells,
  wedgeRInner1, wedgeROuter1, wedgeRInner2, wedgeROuter2, hedgeWedgeTris,
  treeInstances, treeOuterMargin, treeFountainGap, autoTreeCount,
  pass, attempts, sPlaced, mPlaced, tPlaced,
  fountainScale, fountainGlobalScale, hedgeGlobalScale, lastHedgeOuterScaled,
  treeGlobalScale, treeYawDeg, fountainYawDeg,
  currentView, debugFlash, debugColor,
  frame,               \* frames completed (time = 0.01 * frame)
  last,                \* the static map of isKeyPressedOnce: edge keys seen down
  tries,               \* t of sampleStartOutside: candidates rejected so far
  sessionStart,        \* the values the R handler writes, as the first frame met them
  meshBuild,           \* what the last rebuild of the path and ring meshes found
  cinGood,             \* std::cin can still deliver a line
  circle,              \* the running midpoint circle loop of updateFountainRing
  bres                 \* the running bresenham call

cfgVars == << smallCount, mediumCount, tallCount, pathCount >>
layoutVars == << layoutPaths, allPathCells >>
wedgeVars == << wedgeRInner1, wedgeROuter1, wedgeRInner2, wedgeROuter2, hedgeWedgeTris >>
treeVars == << treeInstances, treeOuterMargin, treeFountainGap >>
scatterVars == << pass, attempts, sPlaced, mPlaced, tPlaced >>
scaleVars == << fountainScale, fountainGlobalScale, hedgeGlobalScale, lastHedgeOuterScaled >>
styleVars == << fountainRadius, currentGroundTex, pathStyle, treeGlobalScale, treeYawDeg,
                fountainYawDeg, currentView, debugFlash, debugColor >>
vars == << pc, cfgVars, layoutVars, wedgeVars, treeVars, autoTreeCount, scatterVars,
           scaleVars, styleVars, frame, last, tries, sessionStart, meshBuild, cinGood, circle, bres >>

\* ------------------------------------------------------------- bresenham
\* BresBody with the "err -= dy" update lost
BresBodyNoErrX(x0, y0, err, dx, dy, sx, sy) ==
  LET e2 == 2 * err
      stepX == e2 > -dy
      stepY == e2 < dx
  IN  [ x |-> IF stepX THEN x0 + sx ELSE x0,
        y |-> IF stepY THEN y0 + sy ELSE y0,
        err |-> IF stepY THEN err + dx ELSE err ]

\* one iteration of the while(true) body after the break test
BresBody(x0, y0, err, dx, dy, sx, sy) ==
  LET e2 == 2 * err
      stepX == e2 > -dy
      stepY == e2 < dx
      err1 == IF stepX THEN err - dy ELSE err
  IN  [ x |-> IF stepX THEN x0 + sx ELSE x0,
        y |-> IF stepY THEN y0 + sy ELSE y0,
        err |-> IF stepY THEN err1 + dx ELSE err1 ]

RECURSIVE BresLoop(_, _, _, _, _, _)
BresLoop(x0, y0, err, a, b, pts) ==
  LET dx == Abs(b[1] - a[1])
      dy == Abs(b[2] - a[2])
      sx == IF a[1] < b[1] THEN 1 ELSE -1
      sy == IF a[2] < b[2] THEN 1 ELSE -1
      out == Append(pts, << x0, y0 >>)
  IN  IF x0 = b[1] /\ y0 = b[2] THEN out
      ELSE LET n == BresBody(x0, y0, err, dx, dy, sx, sy)
           IN  BresLoop(n.x, n.y, n.err, a, b, out)

bresenham(a, b) == BresLoop(a[1], a[2], Abs(b[1] - a[1]) - Abs(b[2] - a[2]), a, b, << >>)

SeqRange(s) == { s[i] : i \in 1..Len(s) }

\* ------------------------------------------------------------- layout generation
fountainCell == << designGridW \div 2, designGridH \div 2 >>

\* frGrid: fountain pixel radius in grid cells
FrGrid(radiusPx) ==
  Max(2, (radiusPx * Max(designGridW, designGridH)) \div Min(SCR_WIDTH, SCR_HEIGHT))

\* (wedgeOuterGrid)^2 rounded up; wedgeOuterGrid = frGrid * 3.6
WedgeOuterGridSq(radiusPx) == ((36 * FrGrid(radiusPx)) * (36 * FrGrid(radiusPx)) + 99) \div 100

outsideWedgeCircle(cell, radiusPx) ==
  LET dx == cell[1] - fountainCell[1]
      dy == cell[2] - fountainCell[2]
  IN  dx * dx + dy * dy > WedgeOuterGridSq(radiusPx)

\* the fallback branch of sampleStartOutside for angle k/32 turn
FallbackCell(k) ==
  LET r == Max(Max(fountainCell[1], designGridW - 1 - fountainCell[1]),
               Max(fountainCell[2], designGridH - 1 - fountainCell[2])) - 1
      cx == fountainCell[1] + RoundDiv(r * Cos32(k), 10000)
      cy == fountainCell[2] + RoundDiv(r * Sin32(k), 10000)
  IN  << Max(0, Min(designGridW - 1, cx)), Max(0, Min(designGridH - 1, cy)) >>


\* PushPath with start and end of the record swapped
PushPathSwapped(a) ==
  /\ layoutPaths' = Append(layoutPaths, [ a |-> fountainCell, b |-> a, clear |-> TRUE ])
  /\ allPathCells' = allPathCells \cup SeqRange(bresenham(a, fountainCell))

\* one iteration of the path loop with start cell a
PushPath(a) ==
  /\ layoutPaths' = Append(layoutPaths, [ a |-> a, b |-> fountainCell, clear |-> TRUE ])
  /\ allPathCells' = allPathCells \cup SeqRange(bresenham(a, fountainCell))

\* a path whose start cell c was drawn within MaxSampleTries tries and passed
\* the outsideWedgeCircle test
GeneratePathFound(c) ==
  /\ pc = "paths"
  /\ Len(layoutPaths) < pathCount
  /\ outsideWedgeCircle(c, fountainRadius)
  /\ PushPath(c)
  /\ UNCHANGED << pc, cfgVars, wedgeVars, treeVars, autoTreeCount, scatterVars, scaleVars,
                  styleVars, frame, last, tries, sessionStart, meshBuild, cinGood, circle, bres >>

\* a path for which all MaxSampleTries draws were rejected (cells is the set the
\* draws come from): the fallback cell at angle k/32 turn
GeneratePathFallback(cells, k) ==
  /\ pc = "paths"
  /\ Len(layoutPaths) < pathCount
  /\ \E c \in cells : ~outsideWedgeCircle(c, fountainRadius)
  /\ PushPath(FallbackCell(k))
  /\ UNCHANGED << pc, cfgVars, wedgeVars, treeVars, autoTreeCount, scatterVars, scaleVars,
                  styleVars, frame, last, tries, sessionStart, meshBuild, cinGood, circle, bres >>

\* wedge radii derived from the fountain radius, 1/100
FWorldR(radiusPx) == FrGrid(radiusPx) * 40
\* inner radius of ring 1 with factor 0.4 for 1.4
NewWedgeRInner1Small(radiusPx) == (FWorldR(radiusPx) * 4) \div 10
NewWedgeRInner1(radiusPx) == (FWorldR(radiusPx) * 14) \div 10
NewWedgeROuter1(radiusPx) == (FWorldR(radiusPx) * 24) \div 10
NewWedgeRInner2(radiusPx) == (FWorldR(radiusPx) * 26) \div 10
NewWedgeROuter2(radiusPx) == (FWorldR(radiusPx) * 36) \div 10

hedgeInnerCount == 8
hedgeOuterCount == 16
\* footprints of both rings: ring 1 at i/8 turn, ring 2 at i/16 + 1/32 turn
WedgeTris(rIn1, rOut1, rIn2, rOut2) ==
  LET t1 == makeTriLocal(rIn1, rOut1, HalfAng1)
      t2 == makeTriLocal(rIn2, rOut2, HalfAng2)
  IN  [ i \in 1..(hedgeInnerCount + hedgeOuterCount) |->
          IF i <= hedgeInnerCount
            THEN rotTri(t1, (32 \div hedgeInnerCount) * (i - 1))
            ELSE rotTri(t2, (32 \div hedgeOuterCount) * (i - hedgeInnerCount - 1) + 1) ]

\* hedge footprints, then the start of tree placement
BuildHedges ==
  /\ pc = "paths"
  /\ Len(layoutPaths) >= pathCount
  /\ wedgeRInner1' = NewWedgeRInner1(fountainRadius)
  /\ wedgeROuter1' = NewWedgeROuter1(fountainRadius)
  /\ wedgeRInner2' = NewWedgeRInner2(fountainRadius)
  /\ wedgeROuter2' = NewWedgeROuter2(fountainRadius)
  /\ hedgeWedgeTris' = WedgeTris(wedgeRInner1', wedgeROuter1', wedgeRInner2', wedgeROuter2')
  /\ treeInstances' = << >>
  /\ pass' = 0 /\ attempts' = 0 /\ sPlaced' = 0 /\ mPlaced' = 0 /\ tPlaced' = 0
  /\ pc' = "scatter"
  /\ UNCHANGED << cfgVars, layoutVars, treeOuterMargin, treeFountainGap, autoTreeCount,
                  scaleVars, styleVars, frame, last, tries, sessionStart, meshBuild, cinGood, circle, bres >>

\* ------------------------------------------------------------- scatter placement
worldToGrid(w) ==
  << Max(0, Min(designGridW - 1, ((w[1] + 10000) * designGridW + 10000) \div 20000)),
     Max(0, Min(designGridH - 1, ((w[2] + 10000) * designGridH + 10000) \div 20000)) >>

\* tooClose with a spacing that shrinks by 0.2 with every pass
tooCloseRelaxed(p, trees) ==
  \E i \in 1..Len(trees) :
    LET dx == PosOf(trees[i])[1] - PosOf(p)[1]
        dz == PosOf(trees[i])[2] - PosOf(p)[2]
    IN  dx * dx + dz * dz < (MinSpacing - 200 * pass) * (MinSpacing - 200 * pass)

\* the spacing loop: some placed tree is closer than minSpacing
tooClose(p, trees) ==
  \E i \in 1..Len(trees) :
    LET dx == PosOf(trees[i])[1] - PosOf(p)[1]
        dz == PosOf(trees[i])[2] - PosOf(p)[2]
    IN  dx * dx + dz * dz < MinSpacing * MinSpacing

\* minR of the placement loop, 1/100000
PlacementMinR(rOuter2) == rOuter2 * 1000 + LayoutGap

\* Rejected without the exclusion-field test and the hedge gap test
RejectedNoExclusion(p) ==
  \/ PosOf(p)[1] < -10000 \/ PosOf(p)[1] > 10000
  \/ PosOf(p)[2] < -10000 \/ PosOf(p)[2] > 10000
  \/ worldToGrid(PosOf(p)) \in allPathCells
  \/ tooClose(p, treeInstances)

\* Rejected without the path-cell test
RejectedNoPath(p) ==
  \/ PosOf(p)[1] < -10000 \/ PosOf(p)[1] > 10000
  \/ PosOf(p)[2] < -10000 \/ PosOf(p)[2] > 10000
  \/ isForbiddenAtWorld(p, wedgeROuter2, hedgeGlobalScale, hedgeWedgeTris)
  \/ p.r < PlacementMinR(wedgeROuter2)
  \/ tooClose(p, treeInstances)

\* the four rejection tests of one attempt
Rejected(p) ==
  \/ PosOf(p)[1] < -10000 \/ PosOf(p)[1] > 10000
  \/ PosOf(p)[2] < -10000 \/ PosOf(p)[2] > 10000
  \/ isForbiddenAtWorld(p, wedgeROuter2, hedgeGlobalScale, hedgeWedgeTris)
  \/ p.r < PlacementMinR(wedgeROuter2)
  \/ worldToGrid(PosOf(p)) \in allPathCells
  \/ tooClose(p, treeInstances)

targetTotal == smallCount + mediumCount + tallCount
maxAttempts == targetTotal * AttemptsPerTree
InnerLoopRuns == Len(treeInstances) < targetTotal /\ attempts < maxAttempts

\* AssignSize that serves the Medium target before the Small target
AssignSizeMediumFirst == IF mPlaced < mediumCount THEN "Medium"
                         ELSE IF sPlaced < smallCount THEN "Small" ELSE "Tall"

\* AssignSize without the Tall branch
AssignSizeNoTall == IF sPlaced < smallCount THEN "Small" ELSE "Medium"

\* size distribution: small first, then medium, then tall
AssignSize == IF sPlaced < smallCount THEN "Small"
              ELSE IF mPlaced < mediumCount THEN "Medium" ELSE "Tall"

\* one attempt of the inner while loop with the drawn point p
ScatterTry(p) ==
  /\ pc = "scatter"
  /\ pass < MaxPasses
  /\ InnerLoopRuns
  /\ attempts' = attempts + 1
  /\ IF Rejected(p)
       THEN UNCHANGED << treeInstances, sPlaced, mPlaced, tPlaced >>
       ELSE /\ treeInstances' = Append(treeInstances, [ dir |-> p.dir, r |-> p.r, size |-> AssignSize ])
            /\ sPlaced' = IF AssignSize = "Small" THEN sPlaced + 1 ELSE sPlaced
            /\ mPlaced' = IF AssignSize = "Medium" THEN mPlaced + 1 ELSE mPlaced
            /\ tPlaced' = IF AssignSize = "Tall" THEN tPlaced + 1 ELSE tPlaced
  /\ UNCHANGED << pc, cfgVars, layoutVars, wedgeVars, treeOuterMargin, treeFountainGap,
                  autoTreeCount, pass, scaleVars, styleVars, frame, last, tries, sessionStart, meshBuild, cinGood, circle, bres >>

\* an attempt among the first AttemptCap of a pass
ScatterAttempt(p) == attempts < AttemptCap /\ ScatterTry(p)

\* all remaining attempts of the pass draw rejected points (the world centre is
\* always rejected): only the attempt counter moves
ScatterRejectRest ==
  /\ pc = "scatter"
  /\ pass < MaxPasses
  /\ InnerLoopRuns
  /\ attempts' = maxAttempts
  /\ UNCHANGED << pc, cfgVars, layoutVars, wedgeVars, treeVars, autoTreeCount, pass,
                  sPlaced, mPlaced, tPlaced, scaleVars, styleVars, frame, last, tries, sessionStart, meshBuild, cinGood, circle, bres >>

\* ScatterNextPass that starts the same pass again
ScatterNextPassNoInc ==
  /\ pc = "scatter"
  /\ ~InnerLoopRuns
  /\ pass + 1 < MaxPasses
  /\ Len(treeInstances) < targetTotal
  /\ pass' = pass
  /\ attempts' = 0
  /\ UNCHANGED << pc, cfgVars, layoutVars, wedgeVars, treeVars, autoTreeCount,
                  sPlaced, mPlaced, tPlaced, scaleVars, styleVars, frame, last, tries, sessionStart, meshBuild, cinGood, circle, bres >>

\* the for loop steps to the next pass
ScatterNextPass ==
  /\ pc = "scatter"
  /\ ~InnerLoopRuns
  /\ pass + 1 < MaxPasses
  /\ Len(treeInstances) < targetTotal
  /\ pass' = pass + 1
  /\ attempts' = 0
  /\ UNCHANGED << pc, cfgVars, layoutVars, wedgeVars, treeVars, autoTreeCount,
                  sPlaced, mPlaced, tPlaced, scaleVars, styleVars, frame, last, tries, sessionStart, meshBuild, cinGood, circle, bres >>

\* fountain footprint radius fountainScale * fountainGlobalScale * 1.1, 1/100000
FootR(fs, fgs) == fs * fgs * 11

\* margins of every tree against the given outer radius and footprint
OuterMargins(trees, outer) == [ i \in 1..Len(trees) |-> Max(0, trees[i].r - outer) ]
FountainGaps(trees, foot) == [ i \in 1..Len(trees) |-> Max(0, trees[i].r - foot) ]

\* the placement loop is over: record the per-tree margins, print the summary
ComputeMargins ==
  /\ pc = "scatter"
  /\ \/ Len(treeInstances) >= targetTotal
     \/ attempts >= maxAttempts /\ pass + 1 >= MaxPasses
  /\ autoTreeCount' = Len(treeInstances)
  /\ treeOuterMargin' = OuterMargins(treeInstances, HedgeOuterScaled(wedgeROuter2, hedgeGlobalScale))
  /\ treeFountainGap' = FountainGaps(treeInstances, FootR(fountainScale, fountainGlobalScale))
  /\ pass' = 0
  /\ attempts' = 0
  /\ pc' = "window"
  /\ UNCHANGED << cfgVars, layoutVars, wedgeVars, treeInstances, sPlaced, mPlaced, tPlaced,
                  scaleVars, styleVars, frame, last, tries, sessionStart, meshBuild, cinGood, circle, bres >>

\* the values the R handler writes, as they stand
SessionValues ==
  [ currentView |-> currentView, pathStyle |-> pathStyle, currentGroundTex |-> currentGroundTex,
    fountainRadius |-> fountainRadius, treeGlobalScale |-> treeGlobalScale,
    treeYawDeg |-> treeYawDeg, fountainGlobalScale |-> fountainGlobalScale,
    fountainYawDeg |-> fountainYawDeg, hedgeGlobalScale |-> hedgeGlobalScale,
    fountainScale |-> fountainScale ]

\* window and asset setup: the fountain base scale becomes 0.5; the static
\* lastHedgeOuterScaled of the collision guard starts at wedgeROuter2
InitWindow ==
  /\ pc = "window"
  /\ fountainScale' = 50
  /\ lastHedgeOuterScaled' = wedgeROuter2 * 1000
  /\ meshBuild' = [ fountainRadius |-> fountainRadius, fountainScale |-> 50,
                    hedgeGlobalScale |-> hedgeGlobalScale, treeInstances |-> treeInstances ]
  /\ sessionStart' = [ SessionValues EXCEPT !.fountainScale = 50 ]
  /\ pc' = "loop"
  /\ UNCHANGED << cfgVars, layoutVars, wedgeVars, treeVars, autoTreeCount, scatterVars,
                  fountainGlobalScale, hedgeGlobalScale, styleVars, frame, last, tries,
                  cinGood, circle, bres >>

\* ------------------------------------------------------------- frame loop
\* the globals one frame reads and writes, as a record
Scene ==
  [ currentView |-> currentView, pathStyle |-> pathStyle, currentGroundTex |-> currentGroundTex,
    fountainRadius |-> fountainRadius, treeGlobalScale |-> treeGlobalScale,
    treeYawDeg |-> treeYawDeg, fountainYawDeg |-> fountainYawDeg,
    fountainScale |-> fountainScale, fountainGlobalScale |-> fountainGlobalScale,
    hedgeGlobalScale |-> hedgeGlobalScale, lastHedgeOuterScaled |-> lastHedgeOuterScaled,
    treeInstances |-> treeInstances, treeOuterMargin |-> treeOuterMargin,
    treeFountainGap |-> treeFountainGap, debugFlash |-> debugFlash, debugColor |-> debugColor,
    meshBuild |-> meshBuild ]

\* updateAccuratePathMesh and updateFountainRing: the meshes are rebuilt from
\* the fountain radius, the fountain base scale and the hedge scale; meshBuild
\* keeps these together with the tree positions of that moment
MeshSnapshot(s) ==
  [ fountainRadius |-> s.fountainRadius, fountainScale |-> s.fountainScale,
    hedgeGlobalScale |-> s.hedgeGlobalScale, treeInstances |-> s.treeInstances ]
RebuildMeshes(s) == [ s EXCEPT !.meshBuild = MeshSnapshot(s) ]

debugFlashPing(s, c) == [ s EXCEPT !.debugColor = c, !.debugFlash = 250 ]

\* V: toggle 2D / 3D; entering the 3D view rebuilds the meshes
ToggleView(s) ==
  IF s.currentView = "3D" THEN [ s EXCEPT !.currentView = "2D" ]
                          ELSE RebuildMeshes([ s EXCEPT !.currentView = "3D" ])
\* P: cycle the stylized path mesh
CyclePathStyle(s) == debugFlashPing([ s EXCEPT !.pathStyle = (s.pathStyle + 1) % 3 ], "blue")
\* T / M: cycle the ground texture
CycleGroundTexture(s, d) == [ s EXCEPT !.currentGroundTex = (s.currentGroundTex + d) % 3 ]
\* [ / ]: fountain pixel radius
AdjustFountainRadius(s, d) ==
  RebuildMeshes([ s EXCEPT !.fountainRadius = IF d < 0 THEN Max(10, s.fountainRadius - 2)
                                                       ELSE Min(240, s.fountainRadius + 2) ])
\* I / O: tree scale, J: tree yaw, U: fountain yaw (tenths of a degree)
AdjustTreeScale(s, d) ==
  [ s EXCEPT !.treeGlobalScale = IF d > 0 THEN Min(ScaleMax, s.treeGlobalScale + ScaleStep)
                                          ELSE Max(ScaleMin, s.treeGlobalScale - ScaleStep) ]
YawTrees(s) == [ s EXCEPT !.treeYawDeg = s.treeYawDeg - 8 ]
YawFountain(s) == [ s EXCEPT !.fountainYawDeg = s.fountainYawDeg + 8 ]

\* the tree loop of the K and L handlers: every tree goes to the larger of
\* footprint + stored gap and hedge outer radius + stored margin
DesiredR(i, newFoot, newHedgeOuter, om, fg) ==
  LET gapR == newFoot + (IF i <= Len(fg) THEN fg[i] ELSE 0)
  IN  IF i <= Len(om) /\ newHedgeOuter + om[i] > gapR THEN newHedgeOuter + om[i] ELSE gapR
RepositionTrees(s) ==
  LET newFountainFoot == FootR(s.fountainScale, s.fountainGlobalScale)
      newHedgeOuter == HedgeOuterScaled(wedgeROuter2, s.hedgeGlobalScale)
  IN  [ i \in 1..Len(s.treeInstances) |->
          IF s.treeInstances[i].r > 1
            THEN [ s.treeInstances[i] EXCEPT
                     !.r = DesiredR(i, newFountainFoot, newHedgeOuter,
                                    s.treeOuterMargin, s.treeFountainGap) ]
            ELSE s.treeInstances[i] ]

\* K: fountain scale up; the meshes are rebuilt, then the trees are moved
KHandler(s) ==
  LET s1 == [ s EXCEPT !.fountainGlobalScale = Min(ScaleMax, s.fountainGlobalScale + ScaleStep) ]
      s2 == [ s1 EXCEPT !.hedgeGlobalScale = s1.fountainGlobalScale * 8 ]
      s3 == RebuildMeshes(s2)
  IN  [ s3 EXCEPT !.treeInstances = RepositionTrees(s3) ]
\* LHandler without the lower clamp of the scale
LHandlerNoClamp(s) ==
  LET s1 == [ s EXCEPT !.fountainGlobalScale = s.fountainGlobalScale - ScaleStep ]
      s2 == [ s1 EXCEPT !.hedgeGlobalScale = s1.fountainGlobalScale * 8 ]
      s3 == RebuildMeshes(s2)
  IN  [ s3 EXCEPT !.treeInstances = RepositionTrees(s3) ]
\* L: fountain scale down; the meshes are rebuilt, then the trees are moved
LHandler(s) ==
  LET s1 == [ s EXCEPT !.fountainGlobalScale = Max(ScaleMin, s.fountainGlobalScale - ScaleStep) ]
      s2 == [ s1 EXCEPT !.hedgeGlobalScale = s1.fountainGlobalScale * 8 ]
      s3 == RebuildMeshes(s2)
  IN  [ s3 EXCEPT !.treeInstances = RepositionTrees(s3) ]

\* the clamp of the collision guard: the new fountainGlobalScale
GuardClamp(s) ==
  LET fFootR == FootR(s.fountainScale, s.fountainGlobalScale)
      hedgeInnerScaled == wedgeRInner1 * s.hedgeGlobalScale
  IN  IF fFootR * 100 >= hedgeInnerScaled * 95
        THEN Max(ScaleMin, (hedgeInnerScaled * 95) \div (s.fountainScale * 11 * 100))
        ELSE s.fountainGlobalScale

\* the tree loop of the collision guard
GuardTree(t, i, newOuter, lastOuter, om) ==
  LET minR == newOuter + GuardGap
      margin == IF i <= Len(om) THEN om[i] ELSE GuardGap
  IN  IF newOuter >= lastOuter
        THEN IF t.r < minR /\ t.r > 10
               THEN [ t EXCEPT !.r = Max(minR, newOuter + margin) ]
               ELSE t
        ELSE IF t.r > 10
               THEN [ t EXCEPT !.r = Max(minR, newOuter + margin) ]
               ELSE t

\* collision guard, run every frame
CollisionGuard(s) ==
  LET s1 == [ s EXCEPT !.fountainGlobalScale = GuardClamp(s) ]
      s2 == [ s1 EXCEPT !.hedgeGlobalScale = s1.fountainGlobalScale * 8 ]
      newHedgeOuterScaled == HedgeOuterScaled(wedgeROuter2, s2.hedgeGlobalScale)
  IN  [ s2 EXCEPT
          !.treeInstances = [ i \in 1..Len(s2.treeInstances) |->
                                GuardTree(s2.treeInstances[i], i, newHedgeOuterScaled,
                                          s2.lastHedgeOuterScaled, s2.treeOuterMargin) ],
          !.lastHedgeOuterScaled = newHedgeOuterScaled ]

\* R: full reset. fountainScale is 0.5 since window setup, whether the reset
\* writes it (procedural fountain) or leaves it (OBJ fountain)
ResetHandler(s) ==
  LET s0 == [ s EXCEPT !.currentView = "3D", !.pathStyle = 0, !.currentGroundTex = 0,
                       !.fountainRadius = 60, !.treeGlobalScale = 100, !.treeYawDeg = 0,
                       !.fountainGlobalScale = 100, !.fountainYawDeg = 0,
                       !.hedgeGlobalScale = 800, !.fountainScale = 50 ]
      s1 == RebuildMeshes(s0)
      resetOuter == HedgeOuterScaled(wedgeROuter2, s1.hedgeGlobalScale)
      resetFountainFoot == FootR(s1.fountainScale, s1.fountainGlobalScale)
  IN  debugFlashPing([ s1 EXCEPT !.treeOuterMargin = OuterMargins(s1.treeInstances, resetOuter),
                                 !.treeFountainGap = FountainGaps(s1.treeInstances, resetFountainFoot) ],
                     "green")

\* mouseCallback that flashes on a forbidden point and plants the tree all the same
mouseCallbackNoReturn(s, p) ==
  LET planted == [ s EXCEPT !.treeInstances = Append(@, [ dir |-> p.dir, r |-> p.r, size |-> "Medium" ]) ]
  IN  IF isForbiddenAtWorld(p, wedgeROuter2, s.hedgeGlobalScale, hedgeWedgeTris)
        THEN debugFlashPing(planted, "red")
        ELSE planted

\* left mouse press at world point p: the callback glfwPollEvents runs
mouseCallback(s, p) ==
  IF isForbiddenAtWorld(p, wedgeROuter2, s.hedgeGlobalScale, hedgeWedgeTris)
    THEN debugFlashPing(s, "red")
    ELSE [ s EXCEPT !.treeInstances = Append(@, [ dir |-> p.dir, r |-> p.r, size |-> "Medium" ]) ]

\* keys answered through the edge detector, all polled in every frame
EdgeKeys == { "V", "P", "T", "M", "LB", "RB", "R" }
isKeyPressedOnce(k, keys) == k \in keys /\ k \notin last

\* the handlers of the keys read through the edge detector, in source order
EdgeHandlers(s, keys) ==
  LET a1 == IF isKeyPressedOnce("V", keys) THEN ToggleView(s) ELSE s
      a2 == IF isKeyPressedOnce("P", keys) THEN CyclePathStyle(a1) ELSE a1
      a3 == IF isKeyPressedOnce("T", keys) THEN CycleGroundTexture(a2, 1) ELSE a2
      a4 == IF isKeyPressedOnce("M", keys) THEN CycleGroundTexture(a3, 2) ELSE a3
      a5 == IF isKeyPressedOnce("LB", keys) THEN AdjustFountainRadius(a4, -1) ELSE a4
  IN  IF isKeyPressedOnce("RB", keys) THEN AdjustFountainRadius(a5, 1) ELSE a5

\* the handlers of the keys held down, active in the 3D view, in source order
ViewHandlers(s, keys) ==
  LET in3D == s.currentView = "3D"
      b1 == IF in3D /\ "I" \in keys THEN AdjustTreeScale(s, 1) ELSE s
      b2 == IF in3D /\ "O" \in keys THEN AdjustTreeScale(b1, -1) ELSE b1
      b3 == IF in3D /\ "J" \in keys THEN YawTrees(b2) ELSE b2
      b4 == IF in3D /\ "K" \in keys THEN KHandler(b3) ELSE b3
      b5 == IF in3D /\ "L" \in keys THEN LHandler(b4) ELSE b4
  IN  IF in3D /\ "U" \in keys THEN YawFountain(b5) ELSE b5

\* the end of the loop body: the flash indicator decays
EndFrame(s) ==
  [ s EXCEPT !.debugFlash = IF s.debugFlash > 0 THEN s.debugFlash - 16 ELSE s.debugFlash ]

\* write a scene record back to the globals
Commit(s) ==
  /\ currentView' = s.currentView
  /\ pathStyle' = s.pathStyle
  /\ currentGroundTex' = s.currentGroundTex
  /\ fountainRadius' = s.fountainRadius
  /\ treeGlobalScale' = s.treeGlobalScale
  /\ treeYawDeg' = s.treeYawDeg
  /\ fountainYawDeg' = s.fountainYawDeg
  /\ fountainScale' = s.fountainScale
  /\ fountainGlobalScale' = s.fountainGlobalScale
  /\ hedgeGlobalScale' = s.hedgeGlobalScale
  /\ lastHedgeOuterScaled' = s.lastHedgeOuterScaled
  /\ treeInstances' = s.treeInstances
  /\ treeOuterMargin' = s.treeOuterMargin
  /\ treeFountainGap' = s.treeFountainGap
  /\ debugFlash' = s.debugFlash
  /\ debugColor' = s.debugColor
  /\ meshBuild' = s.meshBuild

\* one pass through the while loop of main, in source order, with the given
\* keys down and the click (if any) that glfwPollEvents delivers at its end
FrameBody(keys, click) ==
  /\ pc = "loop"
  /\ \E s0 \in { Scene } :
     \E s1 \in { EdgeHandlers(s0, keys) } :
     \E s2 \in { ViewHandlers(s1, keys) } :
     \E s3 \in { CollisionGuard(s2) } :
     \E s4 \in { IF isKeyPressedOnce("R", keys) THEN ResetHandler(s3) ELSE s3 } :
     \E s5 \in { IF click # NoClick THEN mouseCallback(s4, click) ELSE s4 } :
       /\ Len(s5.treeInstances) - autoTreeCount <= MaxPlanted
       /\ Commit(EndFrame(s5))
  /\ last' = keys \cap EdgeKeys
  /\ UNCHANGED << pc, cfgVars, layoutVars, wedgeVars, autoTreeCount, scatterVars,
                  tries, sessionStart, cinGood, circle, bres >>

\* a frame of a session of at most MaxFrames frames
Frame(keys, click) ==
  /\ frame < MaxFrames
  /\ FrameBody(keys, click)
  /\ frame' = frame + 1

\* a frame of a session of any length with the scale keys held down or idle;
\* the frames of such a session are not counted
HoldFrame(keys) ==
  /\ FrameBody(keys, NoClick)
  /\ UNCHANGED frame

\* the scene a frame with the given keys down, no reset and no click ends with
KeyFrame(s, keys) ==
  EndFrame(CollisionGuard(ViewHandlers(EdgeHandlers(s, keys), keys)))

\* ------------------------------------------------------------- specification
BresIdle == [ a |-> << 0, 0 >>, b |-> << 0, 0 >>, x |-> 0, y |-> 0, err |-> 0,
              pts |-> << >>, done |-> FALSE ]

\* the locals of the midpoint circle loop, no loop running
CircleIdle == [ rPix |-> 0, x |-> 0, y |-> 0, d |-> 0, raw |-> << >>, done |-> TRUE,
                ordered |-> {}, built |-> FALSE ]

\* the globals as declared, before main runs
InitGlobals ==
  /\ cinGood = TRUE
  /\ tries = 0
  /\ sessionStart = [ currentView |-> "3D", pathStyle |-> 0, currentGroundTex |-> 0,
                      fountainRadius |-> 0, treeGlobalScale |-> 0, treeYawDeg |-> 0,
                      fountainGlobalScale |-> 0, fountainYawDeg |-> 0, hedgeGlobalScale |-> 0,
                      fountainScale |-> 0 ]
  /\ layoutPaths = << >> /\ allPathCells = {}
  /\ wedgeRInner1 = 100 /\ wedgeROuter1 = 200 /\ wedgeRInner2 = 260 /\ wedgeROuter2 = 380
  /\ hedgeWedgeTris = << >>
  /\ treeInstances = << >> /\ treeOuterMargin = << >> /\ treeFountainGap = << >>
  /\ autoTreeCount = 5
  /\ pass = 0 /\ attempts = 0 /\ sPlaced = 0 /\ mPlaced = 0 /\ tPlaced = 0
  /\ fountainScale = 35 /\ fountainGlobalScale = 100 /\ hedgeGlobalScale = 800
  /\ lastHedgeOuterScaled = 0
  /\ treeGlobalScale = 120 /\ treeYawDeg = 0 /\ fountainYawDeg = 0
  /\ currentView = "3D" /\ debugFlash = 0 /\ debugColor = "white"
  /\ frame = 0
  /\ last = {}
  /\ meshBuild = [ fountainRadius |-> 0, fountainScale |-> 0, hedgeGlobalScale |-> 0,
                   treeInstances |-> << >> ]

\* main after the console bootstrap
Init ==
  /\ InitGlobals
  /\ pc = "paths"
  /\ \E c \in CountInputs : smallCount = c[1] /\ mediumCount = c[2] /\ tallCount = c[3]
  /\ pathCount \in PathCountInputs
  /\ fountainRadius \in RadiusInputs
  /\ currentGroundTex = 0
  /\ pathStyle = 0
  /\ bres = BresIdle
  /\ circle = CircleIdle

\* main after the console bootstrap, layout inputs
InitLayout ==
  /\ InitGlobals
  /\ pc = "paths"
  /\ \E c \in LayoutCountInputs : smallCount = c[1] /\ mediumCount = c[2] /\ tallCount = c[3]
  /\ pathCount \in LayoutPathCountInputs
  /\ fountainRadius \in LayoutRadiusInputs
  /\ currentGroundTex = 0
  /\ pathStyle = 0
  /\ bres = BresIdle
  /\ circle = CircleIdle

\* layout generation alone, up to the first frame
NextLayout ==
  \/ \E c \in LayoutCandCells : GeneratePathFound(c)
  \/ \E k \in LayoutFallbackAngles : GeneratePathFallback(LayoutCandCells, k)
  \/ BuildHedges
  \/ \E p \in LayoutScatterPoints : ScatterAttempt(p)
  \/ ScatterRejectRest
  \/ ScatterNextPass
  \/ ComputeMargins
  \/ InitWindow

SpecLayout == InitLayout /\ [][NextLayout]_vars

Next ==
  \/ \E c \in CandCells : GeneratePathFound(c)
  \/ \E k \in FallbackAngles : GeneratePathFallback(CandCells, k)
  \/ BuildHedges
  \/ \E p \in ScatterPoints : ScatterAttempt(p)
  \/ ScatterRejectRest
  \/ ScatterNextPass
  \/ ComputeMargins
  \/ InitWindow
  \/ \E keys \in KeySets, click \in ClickPoints : Frame(keys, click)

Spec == Init /\ [][Next]_vars

\* ------------------------------------------------------------- layout generation, stepwise
\* Inputs of the stepwise specification SpecSteps
StepRadiusInputs == {20, 120}
StepCountInputs == {<<0, 0, 0>>, <<1, 0, 0>>}
StepCandCells == {<<40, 25>>, <<27, 25>>}
StepFallbackAngles == {8}
StepScatterPoints == { At(DirW, 320000), At(DirE, 320000) }

\* one iteration of the for loop of sampleStartOutside with the candidate c:
\* the candidate is returned and the path pushed, or t goes up by one
SampleTry(c) ==
  /\ pc = "paths"
  /\ Len(layoutPaths) < pathCount
  /\ tries < MaxSampleTries
  /\ IF outsideWedgeCircle(c, fountainRadius)
       THEN PushPath(c) /\ tries' = 0
       ELSE tries' = tries + 1 /\ UNCHANGED layoutVars
  /\ UNCHANGED << pc, cfgVars, wedgeVars, treeVars, autoTreeCount, scatterVars, scaleVars,
                  styleVars, frame, last, sessionStart, meshBuild, cinGood, circle, bres >>

\* the for loop of sampleStartOutside ran out: the fallback cell is returned
SampleFallback(k) ==
  /\ pc = "paths"
  /\ Len(layoutPaths) < pathCount
  /\ tries >= MaxSampleTries
  /\ \E cand \in { FallbackCell(k) } : PushPath(cand)
  /\ tries' = 0
  /\ UNCHANGED << pc, cfgVars, wedgeVars, treeVars, autoTreeCount, scatterVars, scaleVars,
                  styleVars, frame, last, sessionStart, meshBuild, cinGood, circle, bres >>

\* main after the console bootstrap, one path
InitSteps ==
  /\ InitGlobals
  /\ pc = "paths"
  /\ \E c \in StepCountInputs : smallCount = c[1] /\ mediumCount = c[2] /\ tallCount = c[3]
  /\ pathCount = 1
  /\ fountainRadius \in StepRadiusInputs
  /\ currentGroundTex = 0
  /\ pathStyle = 0
  /\ bres = BresIdle
  /\ circle = CircleIdle

\* layout generation with every loop iteration a step
NextSteps ==
  \/ \E c \in StepCandCells : SampleTry(c)
  \/ \E k \in StepFallbackAngles : SampleFallback(k)
  \/ BuildHedges
  \/ \E p \in StepScatterPoints : ScatterTry(p)
  \/ ScatterNextPass
  \/ ComputeMargins

SpecSteps == InitSteps /\ [][NextSteps]_vars

\* ------------------------------------------------------------- console bootstrap
INT_MAX == 2147483647
Digits == << "0", "1", "2", "3", "4", "5", "6", "7", "8", "9" >>
IsDigit(c) == \E i \in 1..10 : Digits[i] = c
DigitVal(c) == (CHOOSE i \in 1..10 : Digits[i] = c) - 1
IsSpace(c) == c \in { " ", "\t" }

\* the lines typed at the prompts, as sequences of characters
ConsoleLines ==
  { << >>, << "0" >>, << "7" >>, << "5", "1" >>, << "2", "0", "1" >>, << "-", "1" >>,
    << "a", "b" >>, << "7", "x" >>, << " ", "2" >>, << "0", "0", "7" >>,
    << "2", "1", "4", "7", "4", "8", "3", "6", "4", "8" >> }
\* what std::getline meets: a line, or the end of the input
ConsoleInputs ==
  { [ eof |-> FALSE, line |-> l ] : l \in ConsoleLines } \cup { [ eof |-> TRUE, line |-> << >> ] }

\* std::stoi: leading white space is skipped, then an optional sign, then the
\* longest run of digits; what follows the digits is ignored. No digit, or a
\* value that does not fit an int, throws.
RECURSIVE SkipSpace(_, _)
SkipSpace(line, i) ==
  IF i <= Len(line) /\ IsSpace(line[i]) THEN SkipSpace(line, i + 1) ELSE i
RECURSIVE ReadDigits(_, _, _, _)
ReadDigits(line, i, acc, over) ==
  IF i <= Len(line) /\ IsDigit(line[i])
    THEN IF over \/ acc > (INT_MAX - DigitVal(line[i])) \div 10
           THEN ReadDigits(line, i + 1, acc, TRUE)
           ELSE ReadDigits(line, i + 1, acc * 10 + DigitVal(line[i]), FALSE)
    ELSE [ next |-> i, v |-> acc, over |-> over ]
stoi(line) ==
  LET i == SkipSpace(line, 1)
      signed == i <= Len(line) /\ line[i] \in { "+", "-" }
      j == IF signed THEN i + 1 ELSE i
      d == ReadDigits(line, j, 0, FALSE)
  IN  IF d.next = j \/ d.over
        THEN [ thrown |-> TRUE, v |-> 0 ]
        ELSE [ thrown |-> FALSE, v |-> IF signed /\ line[i] = "-" THEN -d.v ELSE d.v ]

\* the calls of readRange, in order: position in main, range
Prompts ==
  << [ at |-> "readSmall", minV |-> 0, maxV |-> 50 ],
     [ at |-> "readMedium", minV |-> 0, maxV |-> 50 ],
     [ at |-> "readTall", minV |-> 0, maxV |-> 50 ],
     [ at |-> "readPaths", minV |-> 1, maxV |-> 12 ],
     [ at |-> "readRadius", minV |-> 20, maxV |-> 200 ],
     [ at |-> "readTexture", minV |-> 0, maxV |-> 2 ],
     [ at |-> "readStyle", minV |-> 0, maxV |-> 2 ] >>
PromptAt(at) == CHOOSE k \in 1..Len(Prompts) : Prompts[k].at = at
\* the variable the k-th call of readRange is given
PromptVar(k) ==
  << smallCount, mediumCount, tallCount, pathCount, fountainRadius, currentGroundTex, pathStyle >>[k]

\* readRange with the variable accepting every value that parses
readRangeNoRange(var, minV, maxV, in) ==
  IF cinGood /\ ~in.eof /\ in.line # << >>
    THEN LET r == stoi(in.line)
         IN  IF ~r.thrown THEN r.v ELSE var
    ELSE var

\* readRange: the value of var after the call
readRange(var, minV, maxV, in) ==
  IF cinGood /\ ~in.eof /\ in.line # << >>
    THEN LET r == stoi(in.line)
         IN  IF ~r.thrown /\ r.v >= minV /\ r.v <= maxV THEN r.v ELSE var
    ELSE var

\* one call of readRange in main
ReadRange(in) ==
  /\ \E k \in 1..Len(Prompts) : Prompts[k].at = pc
  /\ cinGood \/ in.eof
  /\ LET k == PromptAt(pc)
         v == readRange(PromptVar(k), Prompts[k].minV, Prompts[k].maxV, in)
     IN  /\ smallCount' = IF k = 1 THEN v ELSE smallCount
         /\ mediumCount' = IF k = 2 THEN v ELSE mediumCount
         /\ tallCount' = IF k = 3 THEN v ELSE tallCount
         /\ pathCount' = IF k = 4 THEN v ELSE pathCount
         /\ fountainRadius' = IF k = 5 THEN v ELSE fountainRadius
         /\ currentGroundTex' = IF k = 6 THEN v ELSE currentGroundTex
         /\ pathStyle' = IF k = 7 THEN v ELSE pathStyle
         /\ pc' = IF k < Len(Prompts) THEN Prompts[k + 1].at ELSE "paths"
  /\ cinGood' = (cinGood /\ ~in.eof)
  /\ UNCHANGED << layoutVars, wedgeVars, treeVars, autoTreeCount, scatterVars, scaleVars,
                  treeGlobalScale, treeYawDeg, fountainYawDeg, currentView, debugFlash,
                  debugColor, frame, last, tries, sessionStart, meshBuild, circle, bres >>

\* main at its first prompt, the defaults in place
InitConsole ==
  /\ InitGlobals
  /\ pc = "readSmall"
  /\ smallCount = 5 /\ mediumCount = 10 /\ tallCount = 5 /\ pathCount = 5
  /\ fountainRadius = 60 /\ currentGroundTex = 0 /\ pathStyle = 0
  /\ bres = BresIdle
  /\ circle = CircleIdle

NextConsole == \E in \in ConsoleInputs : ReadRange(in)

SpecConsole == InitConsole /\ [][NextConsole]_vars

\* ------------------------------------------------------------- bresenham, stepwise
BresStart(a, b) ==
  [ a |-> a, b |-> b, x |-> a[1], y |-> a[2],
    err |-> Abs(b[1] - a[1]) - Abs(b[2] - a[2]), pts |-> << >>, done |-> FALSE ]

\* one pass through the while(true) loop of the bresenham lambda
BresIterate ==
  /\ pc = "bres"
  /\ ~bres.done
  /\ LET dx == Abs(bres.b[1] - bres.a[1])
         dy == Abs(bres.b[2] - bres.a[2])
         sx == IF bres.a[1] < bres.b[1] THEN 1 ELSE -1
         sy == IF bres.a[2] < bres.b[2] THEN 1 ELSE -1
         out == Append(bres.pts, << bres.x, bres.y >>)
         n == BresBody(bres.x, bres.y, bres.err, dx, dy, sx, sy)
     IN  bres' = IF bres.x = bres.b[1] /\ bres.y = bres.b[2]
                   THEN [ bres EXCEPT !.pts = out, !.done = TRUE ]
                   ELSE [ bres EXCEPT !.pts = out, !.x = n.x, !.y = n.y, !.err = n.err ]
  /\ UNCHANGED << pc, cfgVars, layoutVars, wedgeVars, treeVars, autoTreeCount, scatterVars,
                  scaleVars, styleVars, frame, last, tries, sessionStart, meshBuild,
                  cinGood, circle >>

\* a call of bresenham on any two points of a (BresMax+1) x (BresMax+1) grid
InitBres ==
  /\ InitGlobals
  /\ pc = "bres"
  /\ smallCount = 5 /\ mediumCount = 10 /\ tallCount = 5 /\ pathCount = 5
  /\ fountainRadius = 60 /\ currentGroundTex = 0 /\ pathStyle = 0
  /\ \E x0 \in 0..BresMax, y0 \in 0..BresMax, x1 \in 0..BresMax, y1 \in 0..BresMax :
       bres = BresStart(<< x0, y0 >>, << x1, y1 >>)
  /\ circle = CircleIdle

NextBres == BresIterate

SpecBres == InitBres /\ [][NextBres]_vars

\* ------------------------------------------------------------- fountain ring, stepwise
\* the sampling radius: round(outerR * 40), raised to 16 when below
CircleStart(rounded) ==
  LET rPix == IF rounded < 16 THEN 16 ELSE rounded
  IN  [ rPix |-> rPix, x |-> 0, y |-> rPix, d |-> 1 - rPix, raw |-> << >>, done |-> FALSE,
        ordered |-> {}, built |-> FALSE ]
\* the eight pushes of one iteration
CirclePush(raw, x, y) ==
  raw \o << << x, y >>, << -x, y >>, << x, -y >>, << -x, -y >>,
            << y, x >>, << -y, x >>, << y, -x >>, << -y, -x >> >>
\* CircleBody that never steps y inward
CircleBodyNoStep(x, y, d) ==
  IF d < 0 THEN [ x |-> x + 1, y |-> y, d |-> d + 2 * x + 3 ]
           ELSE [ x |-> x + 1, y |-> y, d |-> d + 2 * (x - y) + 5 ]
\* the decision step of the midpoint circle loop
CircleBody(x, y, d) ==
  IF d < 0 THEN [ x |-> x + 1, y |-> y, d |-> d + 2 * x + 3 ]
           ELSE [ x |-> x + 1, y |-> y - 1, d |-> d + 2 * (x - y) + 5 ]
\* two offsets with the same atan2 angle. The key of the seen set is the angle
\* in units of 1e-5 rad; neighbouring offsets of one circle of radius r are
\* about 1/r rad apart, so for the radii modelled two offsets share a key
\* exactly when they point the same way
SameAngle(p, q) == p[1] * q[2] = p[2] * q[1] /\ p[1] * q[1] + p[2] * q[2] > 0
\* the offsets that enter ordered: not the origin, first of their angle
Ordered(raw) ==
  { raw[i] : i \in { i \in 1..Len(raw) :
                       /\ raw[i] # << 0, 0 >>
                       /\ \A j \in 1..(i - 1) : ~SameAngle(raw[j], raw[i]) } }
\* one test of the while condition of the midpoint circle loop: an iteration,
\* or the end of the loop with the angle filter and the test for 24 points
CircleIterate ==
  /\ pc = "ring"
  /\ ~circle.done
  /\ circle' =
       IF circle.x <= circle.y
         THEN LET n == CircleBody(circle.x, circle.y, circle.d)
              IN  [ circle EXCEPT !.raw = CirclePush(circle.raw, circle.x, circle.y),
                                  !.x = n.x, !.y = n.y, !.d = n.d ]
         ELSE LET ordered == Ordered(circle.raw)
              IN  [ circle EXCEPT !.done = TRUE, !.ordered = ordered,
                                  !.built = ~(Cardinality(ordered) < 24) ]
  /\ UNCHANGED << pc, cfgVars, layoutVars, wedgeVars, treeVars, autoTreeCount, scatterVars,
                  scaleVars, styleVars, frame, last, tries, sessionStart, meshBuild, cinGood, bres >>

\* a call of updateFountainRing at the start of its circle loop, for any
\* rounded radius up to MaxRPix
InitRing ==
  /\ InitGlobals
  /\ pc = "ring"
  /\ smallCount = 5 /\ mediumCount = 10 /\ tallCount = 5 /\ pathCount = 5
  /\ fountainRadius = 60 /\ currentGroundTex = 0 /\ pathStyle = 0
  /\ bres = BresIdle
  /\ \E rounded \in 0..MaxRPix : circle = CircleStart(rounded)

NextRing == CircleIterate

SpecRing == InitRing /\ [][NextRing]_vars

\* ------------------------------------------------------------- long session
\* keys held down over many frames: fountain and tree scale up, both down, none
HoldKeySets == { {"K", "I"}, {"L", "O"}, {} }

\* main after the console bootstrap: one small tree, two paths, radius 20
InitHold ==
  /\ InitGlobals
  /\ pc = "paths"
  /\ smallCount = 1 /\ mediumCount = 0 /\ tallCount = 0
  /\ pathCount = 2
  /\ fountainRadius = 20
  /\ currentGroundTex = 0
  /\ pathStyle = 0
  /\ bres = BresIdle
  /\ circle = CircleIdle

\* layout generation, then frames with the scale keys held or idle
NextHold ==
  \/ \E c \in CandCells : GeneratePathFound(c)
  \/ BuildHedges
  \/ \E p \in ScatterPoints : ScatterAttempt(p)
  \/ ComputeMargins
  \/ InitWindow
  \/ \E keys \in HoldKeySets : HoldFrame(keys)

SpecHold == InitHold /\ [][NextHold]_vars

\* ------------------------------------------------------------- path mesh
\* gridToWorld: world XZ of a design grid cell, 1/1000
gridToWorld(c) ==
  << (c[1] * 20000) \div designGridW - 10000, (c[2] * 20000) \div designGridH - 10000 >>

\* wedgeOuterR of updateAccuratePathMesh for the values b the rebuild reads, 1/100000
MeshOuterR(b) ==
  Max(HedgeOuterScaled(wedgeROuter2, b.hedgeGlobalScale), FWorldR(b.fountainRadius) * 1000)

\* R * R of a radius in 1/100000, in squared 1/1000 units, rounded down
SqFloor(R) ==
  LET q == R \div 100
      r == R % 100
  IN  q * q + (200 * q * r + r * r) \div 10000

\* m = 0.5 * (a + b) of two world points
Midpoint(a, b) == << (a[1] + b[1]) \div 2, (a[2] + b[2]) \div 2 >>

\* segmentAllowed without the wedge footprint loop
segmentAllowedNoTri(a, b, outerR, tris) ==
  LET m == Midpoint(a, b)
      d2 == m[1] * m[1] + m[2] * m[2]
  IN  ~(d2 <= SqFloor(outerR))

\* the segmentAllowed lambda: midpoint outside the disk and outside every footprint
segmentAllowed(a, b, outerR, tris) ==
  LET m == Midpoint(a, b)
      d2 == m[1] * m[1] + m[2] * m[2]
  IN  IF d2 <= SqFloor(outerR) THEN FALSE
      ELSE ~(\E i \in 1..Len(tris) : pointInTri2(m, tris[i]))

\* the pushQuad lambda: a segment shorter than 1e-4 adds nothing; a quad is
\* kept as the two grid cells it joins
pushQuad(quads, ca, cb) ==
  IF gridToWorld(ca) = gridToWorld(cb) THEN quads ELSE Append(quads, [ a |-> ca, b |-> cb ])

\* "if (segmentAllowed(a,b)) pushQuad(a,b)" for the cells ca, cb
EmitSegment(quads, ca, cb, outerR) ==
  IF segmentAllowed(gridToWorld(ca), gridToWorld(cb), outerR, hedgeWedgeTris)
    THEN pushQuad(quads, ca, cb)
    ELSE quads

\* the step of the replay loop in updateAccuratePathMesh
MeshStep(px, py, err, dx, dy, sx, sy) ==
  LET e2 == 2 * err
      err1 == IF e2 > -dy THEN err - dy ELSE err
  IN  [ x |-> IF e2 > -dy THEN px + sx ELSE px,
        y |-> IF e2 < dx THEN py + sy ELSE py,
        err |-> IF e2 < dx THEN err1 + dx ELSE err1 ]

\* the while loop of the replay for the path record lp: the cells visited
\* (px, py after each step, the start first) and the quads emitted
RECURSIVE MeshReplay(_, _, _, _, _, _)
MeshReplay(p, err, lp, outerR, cells, quads) ==
  LET dx == Abs(lp.b[1] - lp.a[1])
      dy == Abs(lp.b[2] - lp.a[2])
      sx == IF lp.a[1] < lp.b[1] THEN 1 ELSE -1
      sy == IF lp.a[2] < lp.b[2] THEN 1 ELSE -1
  IN  IF p = lp.b
        THEN [ cells |-> cells, quads |-> EmitSegment(quads, p, p, outerR) ]
        ELSE LET n == MeshStep(p[1], p[2], err, dx, dy, sx, sy)
                 q == << n.x, n.y >>
             IN  MeshReplay(q, n.err, lp, outerR, Append(cells, q), EmitSegment(quads, p, q, outerR))

\* MeshPath that replays the path from its end cell to its start cell
MeshPathReversed(lp, outerR) ==
  IF lp.clear
    THEN MeshReplay(lp.b, Abs(lp.b[1] - lp.a[1]) - Abs(lp.b[2] - lp.a[2]),
                    [ lp EXCEPT !.a = lp.b, !.b = lp.a ], outerR, << lp.b >>, << >>)
    ELSE [ cells |-> << >>, quads |-> << >> ]

\* the replay of one path: clear paths only
MeshPath(lp, outerR) ==
  IF lp.clear
    THEN MeshReplay(lp.a, Abs(lp.b[1] - lp.a[1]) - Abs(lp.b[2] - lp.a[2]), lp, outerR,
                    << lp.a >>, << >>)
    ELSE [ cells |-> << >>, quads |-> << >> ]

\* updateAccuratePathMesh: per path, the quads of the mesh built from the values b
PathMesh(b) == [ k \in 1..Len(layoutPaths) |-> MeshPath(layoutPaths[k], MeshOuterR(b)) ]

\* the step of the replay loop in drawBlueprintOverlay
OverlayStep(x0, y0, err, dx, dy, sx, sy) ==
  LET e2 == 2 * err
      err1 == IF e2 > -dy THEN err - dy ELSE err
  IN  [ x |-> IF e2 > -dy THEN x0 + sx ELSE x0,
        y |-> IF e2 < dx THEN y0 + sy ELSE y0,
        err |-> IF e2 < dx THEN err1 + dx ELSE err1 ]

\* the while loop of the replay in drawBlueprintOverlay: the cells visited
RECURSIVE OverlayReplay(_, _, _, _)
OverlayReplay(p, err, lp, cells) ==
  LET dx == Abs(lp.b[1] - lp.a[1])
      dy == Abs(lp.b[2] - lp.a[2])
      sx == IF lp.a[1] < lp.b[1] THEN 1 ELSE -1
      sy == IF lp.a[2] < lp.b[2] THEN 1 ELSE -1
      seen == Append(cells, p)
  IN  IF p = lp.b THEN seen
      ELSE LET n == OverlayStep(p[1], p[2], err, dx, dy, sx, sy)
           IN  OverlayReplay(<< n.x, n.y >>, n.err, lp, seen)
OverlayPath(lp) ==
  OverlayReplay(lp.a, Abs(lp.b[1] - lp.a[1]) - Abs(lp.b[2] - lp.a[2]), lp, << >>)

\* ------------------------------------------------------------- claims
TreeIdx == 1..Len(treeInstances)
CurrentOuter == HedgeOuterScaled(wedgeROuter2, hedgeGlobalScale)
CurrentFoot == FootR(fountainScale, fountainGlobalScale)

\* C1: exclusion containment. In every state between two frames (the state
\* the next frame renders), every placed tree's distance from the centre is
\* at least the current exclusion outer radius wedgeROuter2 * hedgeGlobalScale.
C1_ExclusionContainment ==
  pc = "loop" => \A i \in TreeIdx : treeInstances[i].r >= CurrentOuter

\* C2: after any sequence of frames, no placed tree is inside the exclusion
\* field as isForbiddenAtWorld answers it (disk or any wedge triangle).
C2_NoTreeInExclusionField ==
  pc = "loop" =>
    \A i \in TreeIdx :
      ~isForbiddenAtWorld(treeInstances[i], wedgeROuter2, hedgeGlobalScale, hedgeWedgeTris)

\* C3: at the end of every frame the fountain footprint radius
\* fountainScale * fountainGlobalScale * 1.1 is at most 95% of the scaled inner
\* ring radius wedgeRInner1 * hedgeGlobalScale.
C3_FootprintWithinInnerRing ==
  pc = "loop" => CurrentFoot * 100 <= 95 * (wedgeRInner1 * hedgeGlobalScale)
\* a frame has scaled the fountain up and the fountain pixel radius was changed
C3_Witness ==
  /\ pc = "loop"
  /\ fountainGlobalScale = 103
  /\ fountainRadius = 18

\* C4: margin preservation. After a frame that rescaled the hedge (scale
\* handler and collision guard, margins kept), every tree with stored margins
\* m and g is at distance max(new outer radius + m, new footprint radius + g).
C4_MarginPreservation ==
  [][ ( /\ pc = "loop"
        /\ frame' = frame + 1
        /\ hedgeGlobalScale' # hedgeGlobalScale
        /\ treeOuterMargin' = treeOuterMargin
        /\ treeFountainGap' = treeFountainGap )
      => \A i \in 1..Len(treeOuterMargin') :
           treeInstances'[i].r =
             Max(HedgeOuterScaled(wedgeROuter2, hedgeGlobalScale') + treeOuterMargin'[i],
                 FootR(fountainScale', fountainGlobalScale') + treeFountainGap'[i]) ]_vars

\* squared distance of two placed trees, 1/1000 units squared
TreeDistSq(i, j) ==
  LET a == PosOf(treeInstances[i])
      b == PosOf(treeInstances[j])
  IN  (a[1] - b[1]) * (a[1] - b[1]) + (a[2] - b[2]) * (a[2] - b[2])

\* C5: spacing invariant. In every state of a session every pair of placed
\* trees is at Euclidean distance >= 1.8.
C5_SpacingInvariant ==
  \A i \in TreeIdx : \A j \in TreeIdx :
    i < j => TreeDistSq(i, j) >= MinSpacing * MinSpacing

\* the squared length of vertex v is that of radius R (1/1000), within 3/1000
RadiusIs(v, R) ==
  /\ v[1] * v[1] + v[2] * v[2] >= (R - 3) * (R - 3)
  /\ v[1] * v[1] + v[2] * v[2] <= (R + 3) * (R + 3)

\* C6: once a frame has run, every wedge triangle of hedgeWedgeTris has its
\* apex and far corners at hedgeGlobalScale times the reference radii of its
\* ring, as the disk radius is hedgeGlobalScale * wedgeROuter2.
C6_WedgesScaleWithDisk ==
  (pc = "loop" /\ frame > 0) =>
    \A i \in 1..Len(hedgeWedgeTris) :
      LET rIn == IF i <= hedgeInnerCount THEN wedgeRInner1 ELSE wedgeRInner2
          rOut == IF i <= hedgeInnerCount THEN wedgeROuter1 ELSE wedgeROuter2
      IN  /\ RadiusIs(hedgeWedgeTris[i].a, (rIn * hedgeGlobalScale) \div 100)
          /\ RadiusIs(hedgeWedgeTris[i].b, (rOut * hedgeGlobalScale) \div 100)
          /\ RadiusIs(hedgeWedgeTris[i].c, (rOut * hedgeGlobalScale) \div 100)

\* C7: the start cell of every generated path lies outside the exclusion
\* disk, whichever branch of the sampler produced it.
C7_StartOutsideDisk ==
  \A i \in 1..Len(layoutPaths) : outsideWedgeCircle(layoutPaths[i].a, fountainRadius)

\* C8: after path generation and in every later state, layoutPaths holds
\* exactly pathCount records, each ending at the centre cell (25,25), each clear.
C8_PathRecords ==
  pc # "paths" =>
    /\ Len(layoutPaths) = pathCount
    /\ \A i \in 1..Len(layoutPaths) :
         /\ layoutPaths[i].b = << 25, 25 >>
         /\ layoutPaths[i].b = fountainCell
         /\ layoutPaths[i].clear = TRUE
\* frames, a rescale and a planted tree later
C8_Witness ==
  /\ pc = "loop"
  /\ frame >= 3
  /\ fountainGlobalScale = 98
  /\ Len(treeInstances) > autoTreeCount
  /\ Len(layoutPaths) = 2

BresDx == Abs(bres.b[1] - bres.a[1])
BresDy == Abs(bres.b[2] - bres.a[2])
\* C9: rasterizer totality. The loop ends within max(|dx|,|dy|)+1 iterations;
\* the sequence starts at (x0,y0), consecutive cells differ by at most 1 in
\* each axis, and the finished sequence ends at (x1,y1) with exactly
\* max(|dx|,|dy|)+1 cells.
C9_RasterizerTotality ==
  pc = "bres" =>
    /\ Len(bres.pts) <= Max(BresDx, BresDy) + 1
    /\ ~bres.done => Len(bres.pts) <= Max(BresDx, BresDy)
    /\ Len(bres.pts) > 0 => bres.pts[1] = bres.a
    /\ \A i \in 1..(Len(bres.pts) - 1) :
         /\ Abs(bres.pts[i + 1][1] - bres.pts[i][1]) <= 1
         /\ Abs(bres.pts[i + 1][2] - bres.pts[i][2]) <= 1
    /\ bres.done =>
         /\ bres.pts[Len(bres.pts)] = bres.b
         /\ Len(bres.pts) = Max(BresDx, BresDy) + 1
\* a finished call on a line that is neither axis-parallel nor diagonal
C9_Witness ==
  /\ pc = "bres"
  /\ bres.done
  /\ BresDy > 0
  /\ BresDx > BresDy
  /\ Len(bres.pts) >= 4

\* C10: during and at the end of scatter placement no placed tree is inside
\* the exclusion field, and every placed tree is at least the minimum gap
\* beyond the exclusion disk outer radius (and beyond the unscaled wedgeROuter2).
C10_ScatterOutsideExclusion ==
  pc \in {"scatter", "window"} =>
    \A i \in TreeIdx :
      /\ ~isForbiddenAtWorld(treeInstances[i], wedgeROuter2, hedgeGlobalScale, hedgeWedgeTris)
      /\ treeInstances[i].r >= CurrentOuter + LayoutGap
      /\ treeInstances[i].r >= PlacementMinR(wedgeROuter2)
\* placement ended with two trees placed
C10_Witness ==
  /\ pc = "window"
  /\ Len(treeInstances) = 2

\* the cells of all generated paths, rasterized again from the path records
PathCellsOfRecords ==
  UNION { SeqRange(bresenham(layoutPaths[i].a, layoutPaths[i].b)) : i \in 1..Len(layoutPaths) }

\* C11: during and at the end of scatter placement no placed tree maps, via
\* worldToGrid, to a cell of the rasterized sequence of any generated path
\* (neither of the recorded set allPathCells nor of the paths rasterized again).
C11_NoTreeOnPathCell ==
  pc \in {"scatter", "window"} =>
    \A i \in TreeIdx :
      /\ worldToGrid(PosOf(treeInstances[i])) \notin allPathCells
      /\ worldToGrid(PosOf(treeInstances[i])) \notin PathCellsOfRecords
\* placement ended with a tree placed while the path from (40,25) covers the
\* cell (33,25) that the scatter candidate (3.2, 0) maps to
C11_Witness ==
  /\ pc = "window"
  /\ Len(treeInstances) >= 1
  /\ << 33, 25 >> \in allPathCells
  /\ worldToGrid(PosOf(At(DirE, 320000))) = << 33, 25 >>

\* number of placed trees of one size category
CountOfSize(sz) == Cardinality({ i \in TreeIdx : treeInstances[i].size = sz })

\* C12: during and after scatter placement the total placed never exceeds the
\* target, no category holds more trees than requested, the counters sPlaced,
\* mPlaced, tPlaced are the category counts, and when the target total is
\* reached every category count equals its requested count.
C12_CategoryCounts ==
  pc \in {"scatter", "window"} =>
    /\ Len(treeInstances) <= targetTotal
    /\ CountOfSize("Small") = sPlaced /\ sPlaced <= smallCount
    /\ CountOfSize("Medium") = mPlaced /\ mPlaced <= mediumCount
    /\ CountOfSize("Tall") = tPlaced /\ tPlaced <= tallCount
    /\ Len(treeInstances) = targetTotal =>
         /\ CountOfSize("Small") = smallCount
         /\ CountOfSize("Medium") = mediumCount
         /\ CountOfSize("Tall") = tallCount
\* placement reached a target of one medium and one tall tree
C12_Witness ==
  /\ pc = "window"
  /\ smallCount = 0 /\ mediumCount = 1 /\ tallCount = 1
  /\ Len(treeInstances) = targetTotal
  /\ CountOfSize("Tall") = 1

\* the scene of a frame with the given keys down when glfwPollEvents is reached
PreClick(keys) ==
  LET s3 == CollisionGuard(ViewHandlers(EdgeHandlers(Scene, keys), keys))
  IN  IF isKeyPressedOnce("R", keys) THEN ResetHandler(s3) ELSE s3

\* C13: every frame is a frame of some keys and some click such that, against
\* the scene s the click met: a click inside the exclusion field (disk or wedge
\* footprint) raised the red flash and left the tree list and both margin arrays
\* as they were; a click outside it appended exactly one Medium tree at the
\* clicked point and left the flash indicator alone.
C13_PlantTreeAtRejection ==
  [][ (pc = "loop" /\ frame' = frame + 1) =>
        \E keys \in KeySets, click \in ClickPoints :
          /\ last' = keys \cap EdgeKeys
          /\ LET s == PreClick(keys)
                 inside == isForbiddenAtWorld(click, wedgeROuter2, s.hedgeGlobalScale, hedgeWedgeTris)
             IN  /\ treeOuterMargin' = s.treeOuterMargin
                 /\ treeFountainGap' = s.treeFountainGap
                 /\ hedgeGlobalScale' = s.hedgeGlobalScale
                 /\ IF click # NoClick /\ inside
                      THEN /\ treeInstances' = s.treeInstances
                           /\ debugColor' = "red"
                           /\ debugFlash' = 250 - 16
                      ELSE /\ debugColor' = s.debugColor
                           /\ debugFlash' = EndFrame(s).debugFlash
                           /\ treeInstances' =
                                IF click = NoClick THEN s.treeInstances
                                ELSE Append(s.treeInstances,
                                            [ dir |-> click.dir, r |-> click.r, size |-> "Medium" ]) ]_vars
\* a click inside the exclusion disk was rejected: red flash, no tree planted
C13_Witness ==
  /\ pc = "loop"
  /\ debugColor = "red"
  /\ debugFlash = 250 - 16
  /\ Len(treeInstances) = autoTreeCount
  /\ \E p \in ClickPoints : p # NoClick /\ inDisk(p, wedgeROuter2, hedgeGlobalScale)

\* C14: in every state of the interactive session each placed tree has its
\* own stored exclusion margin and footprint margin: both margin arrays have
\* exactly one entry per tree.
C14_MarginPerTree ==
  pc = "loop" =>
    /\ Len(treeOuterMargin) = Len(treeInstances)
    /\ Len(treeFountainGap) = Len(treeInstances)

\* C16: a frame that takes the fountain scale one step down inside the range
\* 1.0 .. 0.5 leaves every tree that existed before the step at a distance
\* from the centre that is less than or equal to its distance before the step.
C16_ShrinkNeverIncreasesDistance ==
  [][ ( /\ pc = "loop"
        /\ frame' = frame + 1
        /\ fountainGlobalScale <= 100
        /\ fountainGlobalScale' = fountainGlobalScale - ScaleStep
        /\ fountainGlobalScale' >= 50 )
      => \A i \in TreeIdx : treeInstances'[i].r <= treeInstances[i].r ]_vars

\* C17: in every frame whose K or L handler rescales the fountain, the path and
\* ring meshes are rebuilt only after the event's pass over the scene is
\* complete: the hedge scale the rebuild read is the hedge scale the frame's
\* handlers and guard end with, and every tree stands, when the frame's
\* handlers and guard are done, where it stood when the meshes were rebuilt.
C17_PassBeforeMeshRebuild ==
  [][ \A keys \in KeySets, click \in ClickPoints :
        ( /\ Frame(keys, click)
          /\ EdgeHandlers(Scene, keys).currentView = "3D"
          /\ keys \cap { "K", "L" } # {} )
        => LET s == CollisionGuard(ViewHandlers(EdgeHandlers(Scene, keys), keys))
           IN  /\ s.meshBuild.hedgeGlobalScale = s.hedgeGlobalScale
               /\ s.meshBuild.treeInstances = s.treeInstances ]_vars

\* the shape of a typed line: white space, an optional sign, then the body
WhiteLen(line) ==
  CHOOSE n \in 0..Len(line) :
    (\A m \in 1..n : IsSpace(line[m])) /\ (n = Len(line) \/ ~IsSpace(line[n + 1]))
HasSign(line) == WhiteLen(line) < Len(line) /\ line[WhiteLen(line) + 1] \in { "+", "-" }
IsNegative(line) == HasSign(line) /\ line[WhiteLen(line) + 1] = "-"
Body(line) == SubSeq(line, WhiteLen(line) + (IF HasSign(line) THEN 2 ELSE 1), Len(line))
\* the digits the body starts with, and the same without leading zeros
LeadingDigits(line) ==
  LET b == Body(line)
      n == CHOOSE n \in 0..Len(b) :
             (\A m \in 1..n : IsDigit(b[m])) /\ (n = Len(b) \/ ~IsDigit(b[n + 1]))
  IN  SubSeq(b, 1, n)
Significant(ds) ==
  LET z == CHOOSE z \in 0..Len(ds) :
             (\A m \in 1..z : ds[m] = "0") /\ (z = Len(ds) \/ ds[z + 1] # "0")
  IN  SubSeq(ds, z + 1, Len(ds))
RECURSIVE NumVal(_)
NumVal(ds) ==
  IF ds = << >> THEN 0 ELSE NumVal(SubSeq(ds, 1, Len(ds) - 1)) * 10 + DigitVal(ds[Len(ds)])
\* a line that is a decimal numeral and nothing else
IsNumeral(line) == Body(line) # << >> /\ LeadingDigits(line) = Body(line)
\* the line starts with an integer
HasLeadingInt(line) == LeadingDigits(line) # << >>
\* the integer the line starts with lies in minV..maxV (ten significant digits
\* or more are beyond every range of the bootstrap)
LeadingIntInside(line, minV, maxV) ==
  LET sig == Significant(LeadingDigits(line))
  IN  /\ Len(sig) <= 9
      /\ LET v == IF IsNegative(line) THEN -NumVal(sig) ELSE NumVal(sig)
         IN  v >= minV /\ v <= maxV
LeadingInt(line) ==
  LET v == NumVal(Significant(LeadingDigits(line)))
  IN  IF IsNegative(line) THEN -v ELSE v
ConfigInRange ==
  \A k \in 1..Len(Prompts) : PromptVar(k) >= Prompts[k].minV /\ PromptVar(k) <= Prompts[k].maxV

\* C18 as claimed: at every prompt of the console bootstrap, an input that is
\* empty (or missing), is not a decimal numeral, or is a numeral outside the
\* prompt's range leaves the prompted value as it was; and when the bootstrap
\* is over every configuration value lies inside its range.
C18_BadInputKeepsDefault ==
  [][ \A in \in ConsoleInputs, k \in 1..Len(Prompts) :
        (ReadRange(in) /\ Prompts[k].at = pc) =>
          LET bad == \/ in.eof
                     \/ in.line = << >>
                     \/ ~IsNumeral(in.line)
                     \/ ~LeadingIntInside(in.line, Prompts[k].minV, Prompts[k].maxV)
          IN  /\ bad => PromptVar(k)' = PromptVar(k)
              /\ pc' = "paths" => ConfigInRange' ]_vars

\* C18: at every prompt of the console bootstrap, an input that is missing or
\* empty, does not start (after white space and an optional sign) with an
\* integer, or starts with an integer outside the prompt's range leaves the
\* prompted value as it was; every other input sets the prompted value to the
\* integer the line starts with, whatever follows its digits; no other value
\* is touched; and when the bootstrap is over every configuration value lies
\* inside its range.
C18_LeadingIntegerDecides ==
  [][ \A in \in ConsoleInputs, k \in 1..Len(Prompts) :
        (ReadRange(in) /\ Prompts[k].at = pc) =>
          LET keep == \/ in.eof
                      \/ in.line = << >>
                      \/ ~HasLeadingInt(in.line)
                      \/ ~LeadingIntInside(in.line, Prompts[k].minV, Prompts[k].maxV)
          IN  /\ PromptVar(k)' = IF keep THEN PromptVar(k) ELSE LeadingInt(in.line)
              /\ \A m \in 1..Len(Prompts) : m # k => PromptVar(m)' = PromptVar(m)
              /\ pc' = "paths" => ConfigInRange' ]_vars
\* the bootstrap is over: the small count kept its default against an input
\* that was refused, other values were set, and the input ended before the
\* last prompt
C18_Witness ==
  /\ pc = "paths"
  /\ smallCount = 5 /\ mediumCount = 7 /\ tallCount = 0
  /\ pathCount = 7 /\ fountainRadius = 51
  /\ ~cinGood

\* the offsets the circle loop has pushed, as a set
RawOffsets == { circle.raw[i] : i \in 1..Len(circle.raw) }
\* sqrt(x*x + y*y) rounds to r
RoundsTo(p, r) ==
  LET q == 4 * (p[1] * p[1] + p[2] * p[2])
  IN  (2 * r - 1) * (2 * r - 1) <= q /\ q < (2 * r + 1) * (2 * r + 1)
\* the images of an offset under the sign flips and the swap of x and y
Symmetries(p) ==
  { << p[1], p[2] >>, << -p[1], p[2] >>, << p[1], -p[2] >>, << -p[1], -p[2] >>,
    << p[2], p[1] >>, << -p[2], p[1] >>, << p[2], -p[1] >>, << -p[2], -p[1] >> }

\* C19: when the midpoint circle loop of updateFountainRing has ended, for
\* every sampling radius r from 16 up, it has produced at least 24 distinct
\* offsets, the distance of every offset from the origin rounds to r, the set
\* of offsets is closed under the sign flips and the swap of x and y, and the
\* rebuild was not given up for having fewer than 24 points.
C19_CircleSampler ==
  (pc = "ring" /\ circle.done) =>
    /\ circle.rPix >= 16
    /\ Cardinality(RawOffsets) >= 24
    /\ \A p \in RawOffsets : RoundsTo(p, circle.rPix)
    /\ \A p \in RawOffsets : Symmetries(p) \subseteq RawOffsets
    /\ Cardinality(circle.ordered) >= 24
    /\ circle.built
\* the loop has ended for the radius 16, every distinct offset kept by the angle filter
C19_Witness ==
  /\ pc = "ring" /\ circle.done /\ circle.built
  /\ circle.rPix = 16
  /\ Cardinality(circle.ordered) = Cardinality(RawOffsets)

\* C20: a frame in which the R handler ran ends with the view mode, path
\* style, ground texture index, fountain pixel radius, tree scale and yaw,
\* fountain scale (base and global) and yaw, and hedge scale all equal to the
\* values they had when the first frame began.
C20_ResetRestoresSessionStart ==
  [][ (pc = "loop" /\ frame' = frame + 1 /\ "R" \in last' /\ "R" \notin last)
        => SessionValues' = sessionStart ]_vars

\* loop iterations the layout generation can still take, at most: the passes and
\* attempts left of the scatter placement; before it, the paths and candidates
\* left of the path loop on top of a whole scatter placement
LayoutRank ==
  LET scatterAll == 8 * (targetTotal * 600 + 1)
  IN  IF pc = "paths"
        THEN (pathCount - Len(layoutPaths)) * (4000 + 2) - tries + scatterAll + 1
        ELSE IF pc = "scatter"
          THEN (8 - pass) * (targetTotal * 600 + 1) - attempts
          ELSE 0

\* C21: layout generation terminates. The path start sampler never holds more
\* than 4000 rejected candidates and the scatter placement is never beyond its
\* 8th pass nor beyond targetTotal * 600 attempts in a pass; every loop
\* iteration lowers a count of the iterations left, which is never negative,
\* and as long as the window setup has not been reached some iteration can be
\* taken: every run reaches the window setup, whether or not the target count
\* of trees was reached.
C21_LayoutTerminates ==
  /\ [](tries <= 4000)
  /\ [](pc = "scatter" => pass < 8 /\ attempts <= targetTotal * 600)
  /\ [](LayoutRank >= 0)
  /\ [][LayoutRank' < LayoutRank]_vars
  /\ [](pc = "paths" => \/ ENABLED (\E c \in StepCandCells : SampleTry(c))
                        \/ tries >= MaxSampleTries /\ Len(layoutPaths) < pathCount
                        \/ ENABLED BuildHedges)
  /\ [](pc = "scatter" => \/ ENABLED (\E p \in StepScatterPoints : ScatterTry(p))
                          \/ ENABLED ScatterNextPass
                          \/ ENABLED ComputeMargins)
\* the last attempt of the eighth pass is spent with the target not reached,
\* after a path whose start came from the fallback (4000 candidates rejected)
C21_Witness ==
  /\ pc = "scatter"
  /\ pass = 7 /\ attempts = targetTotal * 600
  /\ Len(treeInstances) < targetTotal
  /\ fountainRadius = 120

\* C22: the stored margins of an existing tree are fixed when the tree is
\* placed: no frame of the session, whatever its events (fountain scale,
\* fountain radius, reset, a click that plants another tree, or none), changes
\* the exclusion margin or the footprint margin stored for a tree.
C22_MarginsFixedAtPlacement ==
  [][ pc = "loop" =>
        /\ \A i \in 1..Len(treeOuterMargin) :
             i <= Len(treeOuterMargin') /\ treeOuterMargin'[i] = treeOuterMargin[i]
        /\ \A i \in 1..Len(treeFountainGap) :
             i <= Len(treeFountainGap') /\ treeFountainGap'[i] = treeFountainGap[i] ]_vars

C24_CategoryPriority ==
  /\ [](pc \in { "scatter", "window" } =>
          /\ CountOfSize("Medium") > 0 => CountOfSize("Small") = smallCount
          /\ CountOfSize("Tall") > 0 =>
                CountOfSize("Small") = smallCount /\ CountOfSize("Medium") = mediumCount
          /\ sPlaced + mPlaced + tPlaced = Len(treeInstances))
  /\ [](pc = "scatter" /\ ~InnerLoopRuns /\ pass + 1 >= 8 => ENABLED ComputeMargins)
  /\ [](pc = "window" =>
          /\ autoTreeCount = Len(treeInstances)
          /\ Len(treeOuterMargin) = Len(treeInstances)
          /\ Len(treeFountainGap) = Len(treeInstances))
\* placement ended one tree short of a target of one Small and one Medium tree:
\* the tree placed is the Small one
C24_Witness ==
  /\ pc = "window"
  /\ smallCount = 1 /\ mediumCount = 1
  /\ Len(treeInstances) = 1
  /\ treeInstances[1].size = "Small"

\* the midpoint of the segment joining the cells ca, cb lies inside or on the
\* disk of radius R (1/100000), or inside or on a wedge footprint
MidInDisk(ca, cb, R) ==
  LET m == Midpoint(gridToWorld(ca), gridToWorld(cb))
  IN  m[1] * m[1] + m[2] * m[2] <= SqFloor(R)
MidInWedge(ca, cb) ==
  \E i \in 1..Len(hedgeWedgeTris) :
    pointInTri2(Midpoint(gridToWorld(ca), gridToWorld(cb)), hedgeWedgeTris[i])

\* C25: every quad of the path mesh joins two consecutive cells of a path's
\* rasterized sequence whose segment midpoint lies strictly outside the
\* exclusion disk of radius max(wedgeROuter2 * hedgeGlobalScale, fountain world
\* radius) the rebuild found, and outside every wedge footprint; a segment
\* whose midpoint is inside or on the boundary of either has no quad, and no
\* quad joins a cell to itself (the zero-length final segment).
C25_PathMeshQuads ==
  pc = "loop" =>
    \A k \in 1..Len(layoutPaths) :
      \A cells \in { bresenham(layoutPaths[k].a, layoutPaths[k].b) } :
      \A quads \in { PathMesh(meshBuild)[k].quads } :
        /\ \A j \in 1..Len(quads) :
             /\ \E i \in 1..(Len(cells) - 1) : quads[j].a = cells[i] /\ quads[j].b = cells[i + 1]
             /\ ~MidInDisk(quads[j].a, quads[j].b, MeshOuterR(meshBuild))
             /\ ~MidInWedge(quads[j].a, quads[j].b)
             /\ quads[j].a # quads[j].b
        /\ \A i \in 1..(Len(cells) - 1) :
             (MidInDisk(cells[i], cells[i + 1], MeshOuterR(meshBuild)) \/ MidInWedge(cells[i], cells[i + 1]))
               => \A j \in 1..Len(quads) : quads[j] # [ a |-> cells[i], b |-> cells[i + 1] ]
\* a mesh rebuilt after a fountain rescale holds a quad, and some segment of the
\* same path outside the disk is skipped for a wedge footprint alone
C25_Witness ==
  /\ pc = "loop"
  /\ meshBuild.hedgeGlobalScale # 800
  /\ \E k \in 1..Len(layoutPaths) :
       \E cells \in { bresenham(layoutPaths[k].a, layoutPaths[k].b) } :
         /\ Len(PathMesh(meshBuild)[k].quads) > 0
         /\ \E i \in 1..(Len(cells) - 1) :
              /\ ~MidInDisk(cells[i], cells[i + 1], MeshOuterR(meshBuild))
              /\ MidInWedge(cells[i], cells[i + 1])

\* C27: in every state at the end of a frame, after any sequence of events,
\* fountainGlobalScale lies in [0.2, 3.0], treeGlobalScale lies in [0.2, 3.0]
\* and hedgeGlobalScale equals 0.8 * fountainGlobalScale.
C27_ScaleRanges ==
  pc = "loop" =>
    /\ 20 <= fountainGlobalScale /\ fountainGlobalScale <= 300
    /\ 20 <= treeGlobalScale /\ treeGlobalScale <= 300
    /\ hedgeGlobalScale = 8 * fountainGlobalScale
\* L and O were held until both scales stood at the lower bound: the fountain
\* scale met it first and its further steps down were refused
C27_Witness ==
  /\ pc = "loop"
  /\ fountainGlobalScale = 20 /\ treeGlobalScale = 20
  /\ hedgeGlobalScale = 160

\* C26: recomputation equivalence. For every stored path the cell sequence
\* re-derived inside updateAccuratePathMesh and the one re-derived inside
\* drawBlueprintOverlay are identical, cell for cell and in the same order, to
\* the sequence the bresenham routine produced at layout generation, whose
\* cells were recorded for tree exclusion.
C26_ReplayEquivalence ==
  pc = "loop" =>
    \A k \in 1..Len(layoutPaths) :
      \A cells \in { bresenham(layoutPaths[k].a, layoutPaths[k].b) } :
        /\ PathMesh(meshBuild)[k].cells = cells
        /\ OverlayPath(layoutPaths[k]) = cells
        /\ SeqRange(cells) \subseteq allPathCells
\* two stored paths, a diagonal one from the grid corner and an axis-parallel
\* one, have been replayed by the first mesh build
C26_Witness ==
  /\ pc = "loop"
  /\ Len(layoutPaths) = 2
  /\ layoutPaths[1].a = << 0, 0 >>
  /\ layoutPaths[2].a[2] = layoutPaths[2].b[2]
  /\ Len(PathMesh(meshBuild)[1].cells) = 26

\* C28: idle stability. A frame with no key down and no click leaves every
\* placed tree where it stood, from any reachable state, the frame right after
\* a planted tree and the frame right after a reset included.
C28_IdleStability ==
  [][ Frame({}, NoClick) => treeInstances' = treeInstances ]_vars

\* distances from the centre of the auto-placed trees of a scene
AutoTreeR(s) == [ i \in 1..autoTreeCount |-> s.treeInstances[i].r ]

\* C29: rescale round trip. From any reachable state of the 3D view in which
\* the fountain scale is not at a bound, a frame with one step up followed by a
\* frame with one step down, and a frame with one step down followed by a frame
\* with one step up, both end with the fountain scale and the distance of every
\* auto-placed tree from the centre as they were before the two frames.
C29_RescaleRoundTrip ==
  (pc = "loop" /\ currentView = "3D" /\ 20 < fountainGlobalScale /\ fountainGlobalScale < 300) =>
    \A first \in { "K", "L" } :
      \A back \in { KeyFrame(KeyFrame(Scene, { first }), { "K", "L" } \ { first }) } :
        /\ back.fountainGlobalScale = fountainGlobalScale
        /\ AutoTreeR(back) = AutoTreeR(Scene)

\* C30: a saturated rescale request is a no-op. With fountainGlobalScale at
\* its lower bound 0.2, a frame with L held (and at its upper bound 3.0, a
\* frame with K held) leaves the fountain scale, the hedge scale that gives the
\* exclusion radii, and the position of every placed tree unchanged.
C30_SaturatedRescaleNoOp ==
  (pc = "loop" /\ currentView = "3D") =>
    \A key \in { "K", "L" } :
      ( \/ key = "L" /\ fountainGlobalScale = 20
        \/ key = "K" /\ fountainGlobalScale = 300 )
      => \A after \in { KeyFrame(Scene, { key }) } :
           /\ after.fountainGlobalScale = fountainGlobalScale
           /\ after.hedgeGlobalScale = hedgeGlobalScale
           /\ after.treeInstances = treeInstances

====
